---- MODULE Spec2Model ----
(***************************************************************************)
(* A model of python3/vimspector/utils.py: the scoped editor-state helpers *)
(* (context managers around the host editor's options, buffers, windows    *)
(* and input state), the user prompts, the upward search for a             *)
(* configuration file and the logging set-up.                              *)
(*                                                                         *)
(* The host editor (the vim module) is modelled by the state the helpers   *)
(* read and write: the global options, each buffer's options and line      *)
(* count, each window's buffer and cursor, the current window and the      *)
(* number of inputsave() / inputrestore() calls made so far.               *)
(***************************************************************************)
EXTENDS Integers, Sequences, FiniteSets, TLC

VARIABLES
  options,        \* vim.options: option name -> value
  bufopts,        \* buf.options[ 'modifiable' / 'readonly' ] of every buffer
  buflen,         \* len( buffer ) of every buffer
  winbuf,         \* window.buffer of every window
  wincursor,      \* window.cursor of every window: <<line, column>>
  curwin,         \* vim.current.window
  inputsaves,     \* number of inputsave() calls evaluated
  inputrestores,  \* number of inputrestore() calls evaluated
  pc,             \* "idle" | "body" | "done": where the with-statement is
  helper,         \* the context manager of the with-statement
  saved,          \* the context manager's locals at its yield
  steps,          \* steps the body has taken
  entry,          \* host state when the with-statement was entered
  bodyend,        \* how the body ended and the host state at that moment
  outcome,        \* what reached the caller of the with-statement
  restored,       \* whether the code after the yield ran
  call,           \* the last prompt operation: its inputs and its result
  cwd,            \* os.getcwd()
  fs,             \* the paths os.path.exists() answers True for
  p,              \* PathToConfigFile: the loop variable p
  ppc,            \* PathToConfigFile: "start" | "loop" | "done"
  presult,        \* PathToConfigFile: the value returned
  handlers,       \* logger.handlers of every logger
  level,          \* logger.level of every logger
  setups,         \* SetUpLogging calls made on every logger
  lastSetup       \* the last SetUpLogging call: handler list before and after

hostVars == <<options, bufopts, buflen, winbuf, wincursor, curwin,
              inputsaves, inputrestores>>
scopeVars == <<pc, helper, saved, steps, entry, bodyend, outcome, restored>>
promptVars == <<call>>
pathVars == <<cwd, fs, p, ppc, presult>>
logVars == <<handlers, level, setups, lastSetup>>
vars == <<hostVars, scopeVars, promptVars, pathVars, logVars>>

(***************************************************************************)
(* Bounds of the model.                                                    *)
(***************************************************************************)
\* option values are 0..MaxOptValue
MaxOptValue == 2
\* a buffer has 1..MaxLines lines
MaxLines == 3
\* a cursor column is 0 or MaxCol
MaxCol == 1
\* host-state changes one body makes
MaxBodySteps == 2
\* length of the list handed to SelectFromList
MaxOptions == 2
\* depth of the working directory below the root
MaxDepth == 3
\* SetUpLogging calls counted per logger
MaxSetups == 2

OptNames == {"eventignore", "scrolloff"}
OptValues == 0..MaxOptValue
Buffers == {"b1", "b2"}
Windows == {"w1", "w2"}
BufOptNames == {"modifiable", "readonly"}
Lines == 1..MaxLines
Cols == {0, MaxCol}
Hows == {"return", "raise"}

\* Python's None; a value v that is present is <<v>>.
None == <<>>
Some(v) == <<v>>

Min(a, b) == IF a <= b THEN a ELSE b

\* The host state the scoped helpers touch, as one value.
Host == [options |-> options, bufopts |-> bufopts, buflen |-> buflen,
         winbuf |-> winbuf, wincursor |-> wincursor, curwin |-> curwin,
         inputsaves |-> inputsaves, inputrestores |-> inputrestores]

\* The host keeps every window's cursor on a line of the window's buffer.
HostOK ==
  \A w \in Windows : /\ wincursor[w][1] \in 1..buflen[winbuf[w]]
                     /\ wincursor[w][2] \in Cols

(***************************************************************************)
(* The host editor's own operations, as the helpers use them.              *)
(***************************************************************************)

\* vim.current.window = w
SetCurrentWindow(h, w) == [h EXCEPT !.curwin = w]

\* vim.current.buffer = b: the current window displays b; a window that
\* changes buffer gets a cursor that is valid in every buffer.
SetCurrentBuffer(h, b) ==
  [h EXCEPT !.winbuf[h.curwin] = b,
            !.wincursor[h.curwin] =
               IF h.winbuf[h.curwin] = b THEN @ ELSE <<1, 0>>]

\* vim.current.window.cursor = pos
SetCurrentCursor(h, pos) == [h EXCEPT !.wincursor[h.curwin] = pos]

\* len( vim.current.buffer )
CurrentBufferLen(h) == h.buflen[h.winbuf[h.curwin]]

SetHost(h) ==
  /\ options' = h.options
  /\ bufopts' = h.bufopts
  /\ buflen' = h.buflen
  /\ winbuf' = h.winbuf
  /\ wincursor' = h.wincursor
  /\ curwin' = h.curwin
  /\ inputsaves' = h.inputsaves
  /\ inputrestores' = h.inputrestores

(***************************************************************************)
(* contextlib.contextmanager: what reaches the caller of the with          *)
(* statement when the body ended by `how`.  A generator that lets the      *)
(* error through a try/finally re-raises it; a generator whose except      *)
(* clause catches it and then ends makes the with-statement suppress it.   *)
(***************************************************************************)
FinallyOutcome(how) == IF how = "raise" THEN "raised" ELSE "returned"

ExceptOutcome(how) == "returned"

(***************************************************************************)
(* The context managers: the code before the yield (Enter: the new host    *)
(* state and the locals kept across the yield) and the code after it       *)
(* (Exit: the new host state).                                             *)
(***************************************************************************)

ModifiableScratchBufferEnter(h, buf) ==
  [h EXCEPT !.bufopts[buf] = [modifiable |-> TRUE, readonly |-> FALSE]]

ModifiableScratchBufferExit_KeepsReadonlyOff(h, sv) ==
  [h EXCEPT !.bufopts[sv.buf].modifiable = FALSE]

ModifiableScratchBufferExit_SkipsWhenNotModifiable(h, sv) ==
  IF h.bufopts[sv.buf].modifiable
    THEN [h EXCEPT !.bufopts[sv.buf] = [modifiable |-> FALSE, readonly |-> TRUE]]
    ELSE h

ModifiableScratchBufferExit(h, sv) ==
  [h EXCEPT !.bufopts[sv.buf] = [modifiable |-> FALSE, readonly |-> TRUE]]

RestoreCursorPositionExit_NoClamp(h, sv) ==
  SetCurrentCursor(h, <<sv.current_pos[1], sv.current_pos[2]>>)

RestoreCursorPositionExit(h, sv) ==
  SetCurrentCursor(h, <<Min(sv.current_pos[1], CurrentBufferLen(h)),
                        sv.current_pos[2]>>)

RestorCurrentWindowExit(h, sv) == SetCurrentWindow(h, sv.old_window)

RestoreCurrentBufferExit_StaysInWindow(h, sv) ==
  SetCurrentBuffer(SetCurrentWindow(h, sv.window), sv.old_buffer)

RestoreCurrentBufferExit(h, sv) ==
  LET old_window == h.curwin
      h1 == SetCurrentWindow(h, sv.window)
      h2 == SetCurrentBuffer(h1, sv.old_buffer)
  IN  RestorCurrentWindowExit(h2, [old_window |-> old_window])

TemporaryVimOptionEnter(h, opt, value) == [h EXCEPT !.options[opt] = value]

TemporaryVimOptionExit_KeepsBodyValue(h, sv) == h

TemporaryVimOptionExit(h, sv) == [h EXCEPT !.options[sv.opt] = sv.old_value]

InputSaveEnter(h) == [h EXCEPT !.inputsaves = @ + 1]

\* try: yield / except: inputrestore(): the code after the yield runs only
\* when the body raised.
InputSaveExit(h, how) ==
  IF how = "raise" THEN [h EXCEPT !.inputrestores = @ + 1] ELSE h

(***************************************************************************)
(* The with-statement: entering it runs the context manager up to its      *)
(* yield, the caller's body then changes the host state step by step, and  *)
(* the end of the body (by return or by raise) runs the rest of the        *)
(* context manager.                                                        *)
(***************************************************************************)
othersOfScope == <<promptVars, pathVars, logVars>>

Begin(hlp, sv, h) ==
  /\ pc = "idle"
  /\ pc' = "body"
  /\ helper' = hlp
  /\ saved' = sv
  /\ steps' = 0
  /\ entry' = Host
  /\ SetHost(h)
  /\ UNCHANGED <<bodyend, outcome, restored, othersOfScope>>

End(hlp, how, h, out, ran) ==
  /\ pc = "body"
  /\ helper = hlp
  /\ pc' = "done"
  /\ bodyend' = [how |-> how, host |-> Host]
  /\ SetHost(h)
  /\ outcome' = out
  /\ restored' = ran
  /\ UNCHANGED <<helper, saved, steps, entry, othersOfScope>>

ModifiableScratchBuffer(buf) ==
  Begin("ModifiableScratchBuffer", [buf |-> buf],
        ModifiableScratchBufferEnter(Host, buf))

EndModifiableScratchBuffer(how) ==
  End("ModifiableScratchBuffer", how,
      ModifiableScratchBufferExit(Host, saved), FinallyOutcome(how), TRUE)

RestoreCursorPosition ==
  Begin("RestoreCursorPosition", [current_pos |-> wincursor[curwin]], Host)

EndRestoreCursorPosition(how) ==
  End("RestoreCursorPosition", how,
      RestoreCursorPositionExit(Host, saved), FinallyOutcome(how), TRUE)

RestorCurrentWindow ==
  Begin("RestorCurrentWindow", [old_window |-> curwin], Host)

EndRestorCurrentWindow(how) ==
  End("RestorCurrentWindow", how,
      RestorCurrentWindowExit(Host, saved), FinallyOutcome(how), TRUE)

RestoreCurrentBuffer(window) ==
  Begin("RestoreCurrentBuffer",
        [window |-> window, old_buffer |-> winbuf[window]], Host)

EndRestoreCurrentBuffer(how) ==
  End("RestoreCurrentBuffer", how,
      RestoreCurrentBufferExit(Host, saved), FinallyOutcome(how), TRUE)

TemporaryVimOption(opt, value) ==
  Begin("TemporaryVimOption", [opt |-> opt, value |-> value, old_value |-> options[opt]],
        TemporaryVimOptionEnter(Host, opt, value))

EndTemporaryVimOption(how) ==
  End("TemporaryVimOption", how,
      TemporaryVimOptionExit(Host, saved), FinallyOutcome(how), TRUE)

InputSave ==
  Begin("InputSave", [none |-> TRUE], InputSaveEnter(Host))

EndInputSave(how) ==
  End("InputSave", how,
      InputSaveExit(Host, how), ExceptOutcome(how), how = "raise")

(***************************************************************************)
(* The caller's body: any change of the host state the helpers look at.    *)
(***************************************************************************)
Body(h) ==
  /\ pc = "body"
  /\ steps < MaxBodySteps
  /\ steps' = steps + 1
  /\ SetHost(h)
  /\ UNCHANGED <<pc, helper, saved, entry, bodyend, outcome, restored,
                 othersOfScope>>

BodySetOption(opt, v) == Body([Host EXCEPT !.options[opt] = v])

BodySetBufOption(buf, name, v) == Body([Host EXCEPT !.bufopts[buf][name] = v])

\* Lines are appended to or deleted from buf; the host keeps the cursors of
\* the windows that display it inside the buffer.
BodySetLines(buf, n) ==
  Body([Host EXCEPT
          !.buflen[buf] = n,
          !.wincursor = [w \in Windows |->
                           IF winbuf[w] = buf
                             THEN <<Min(wincursor[w][1], n), wincursor[w][2]>>
                             ELSE wincursor[w]]])

BodySetCursor(w, pos) ==
  /\ pos[1] <= buflen[winbuf[w]]
  /\ Body([Host EXCEPT !.wincursor[w] = pos])

BodySetCurrentWindow(w) == Body(SetCurrentWindow(Host, w))

BodySetBuffer(w, b) ==
  Body([SetCurrentBuffer(SetCurrentWindow(Host, w), b) EXCEPT !.curwin = curwin])

(***************************************************************************)
(* Initial states.                                                         *)
(***************************************************************************)
InitScope ==
  /\ pc = "idle"
  /\ helper = "none"
  /\ saved = <<>>
  /\ steps = 0
  /\ entry = <<>>
  /\ bodyend = <<>>
  /\ outcome = "none"
  /\ restored = FALSE

InitPromptIdle == call = <<>>

InitPathIdle ==
  /\ cwd = <<>>
  /\ fs = {<<>>}
  /\ p = <<>>
  /\ ppc = "idle"
  /\ presult = None

InitLogIdle ==
  /\ handlers = <<>>
  /\ level = <<>>
  /\ setups = <<>>
  /\ lastSetup = <<>>

InitOptionsDefault == options = [o \in OptNames |-> 0]
InitBufoptsDefault ==
  bufopts = [b \in Buffers |-> [modifiable |-> FALSE, readonly |-> TRUE]]
InitInputDefault == inputsaves = 0 /\ inputrestores = 0
InitWindowsDefault ==
  /\ buflen = [b \in Buffers |-> MaxLines]
  /\ winbuf = [w \in Windows |-> "b1"]
  /\ wincursor = [w \in Windows |-> <<1, 0>>]
  /\ curwin = "w1"

EndedBy(hlp) == pc = "done" /\ helper = hlp

(***************************************************************************)
(* TemporaryVimOption, from every value of every option.                   *)
(***************************************************************************)
InitOption ==
  /\ options \in [OptNames -> OptValues]
  /\ InitBufoptsDefault /\ InitInputDefault /\ InitWindowsDefault
  /\ InitScope /\ InitPromptIdle /\ InitPathIdle /\ InitLogIdle

NextOption ==
  \/ \E opt \in OptNames, value \in OptValues : TemporaryVimOption(opt, value)
  \/ \E opt \in OptNames, v \in OptValues : BodySetOption(opt, v)
  \/ \E how \in Hows : EndTemporaryVimOption(how)

SpecOption == InitOption /\ [][NextOption]_vars

\* C3: while the body of TemporaryVimOption( opt, value ) has not written to
\* opt, the global option opt holds value; once the scope has ended, by
\* return or by raise, opt holds the value it had right before the call,
\* whatever the body wrote to it.
C3_TemporaryOptionRestored ==
  /\ (pc = "body" /\ helper = "TemporaryVimOption" /\ steps = 0)
        => options[saved.opt] = saved.value
  /\ EndedBy("TemporaryVimOption")
        => options[saved.opt] = entry.options[saved.opt]

C3_Witness ==
  /\ EndedBy("TemporaryVimOption")
  /\ bodyend.how = "raise"
  /\ saved.value # entry.options[saved.opt]
  /\ bodyend.host.options[saved.opt] \notin {saved.value, entry.options[saved.opt]}

(***************************************************************************)
(* ModifiableScratchBuffer, from every state of the buffers' two flags.    *)
(***************************************************************************)
InitBuffer ==
  /\ bufopts \in [Buffers -> [modifiable : BOOLEAN, readonly : BOOLEAN]]
  /\ InitOptionsDefault /\ InitInputDefault /\ InitWindowsDefault
  /\ InitScope /\ InitPromptIdle /\ InitPathIdle /\ InitLogIdle

NextBuffer ==
  \/ \E buf \in Buffers : ModifiableScratchBuffer(buf)
  \/ \E buf \in Buffers, name \in BufOptNames, v \in BOOLEAN :
        BodySetBufOption(buf, name, v)
  \/ \E how \in Hows : EndModifiableScratchBuffer(how)

SpecBuffer == InitBuffer /\ [][NextBuffer]_vars

Writable == [modifiable |-> TRUE, readonly |-> FALSE]
Scratch == [modifiable |-> FALSE, readonly |-> TRUE]

\* C4: while the body of ModifiableScratchBuffer( buf ) has not touched the
\* flags, buf is modifiable and not readonly; once the scope has ended, by
\* return or by raise, buf is not modifiable and readonly, from every prior
\* state of buf and whatever the body set the flags to.
C4_ScratchBufferLeftReadOnly ==
  /\ (pc = "body" /\ helper = "ModifiableScratchBuffer" /\ steps = 0)
        => bufopts[saved.buf] = Writable
  /\ EndedBy("ModifiableScratchBuffer") => bufopts[saved.buf] = Scratch

C4_Witness ==
  /\ EndedBy("ModifiableScratchBuffer")
  /\ bodyend.how = "raise"
  /\ entry.bufopts[saved.buf] = Writable
  /\ bodyend.host.bufopts[saved.buf] = [modifiable |-> FALSE, readonly |-> FALSE]

\* C5 as claimed: after ModifiableScratchBuffer( buf ) the two flags of buf
\* equal their values before the scope was entered.
C5_FlagsAsFound ==
  EndedBy("ModifiableScratchBuffer")
     => bufopts[saved.buf] = entry.bufopts[saved.buf]

\* C5 as amended: after ModifiableScratchBuffer( buf ) the two flags of buf
\* equal their values before the scope exactly when buf was not modifiable
\* and readonly before it; the flags of every other buffer are as the body
\* left them.
C5_FlagsAsFoundIffScratch ==
  EndedBy("ModifiableScratchBuffer")
     => /\ (bufopts[saved.buf] = entry.bufopts[saved.buf])
              <=> (entry.bufopts[saved.buf] = Scratch)
        /\ \A b \in Buffers \ {saved.buf} :
              bufopts[b] = bodyend.host.bufopts[b]

C5_Witness ==
  /\ EndedBy("ModifiableScratchBuffer")
  /\ entry.bufopts[saved.buf] = Scratch
  /\ bodyend.host.bufopts[saved.buf] # Writable
  /\ \E b \in Buffers \ {saved.buf} : bodyend.host.bufopts[b] # entry.bufopts[b]

(***************************************************************************)
(* RestoreCursorPosition, from every cursor and every buffer length.       *)
(***************************************************************************)
InitCursor ==
  /\ buflen \in [Buffers -> Lines]
  /\ winbuf \in [Windows -> Buffers]
  /\ curwin \in Windows
  /\ wincursor \in [Windows -> Lines \X Cols]
  /\ HostOK
  /\ \A w \in Windows \ {curwin} : wincursor[w] = <<1, 0>> /\ winbuf[w] = "b1"
  /\ InitOptionsDefault /\ InitBufoptsDefault /\ InitInputDefault
  /\ InitScope /\ InitPromptIdle /\ InitPathIdle /\ InitLogIdle

NextCursor ==
  \/ RestoreCursorPosition
  \/ \E buf \in Buffers, n \in Lines : BodySetLines(buf, n)
  \/ \E w \in Windows, pos \in Lines \X Cols : BodySetCursor(w, pos)
  \/ \E w \in Windows : BodySetCurrentWindow(w)
  \/ \E w \in Windows, b \in Buffers : BodySetBuffer(w, b)
  \/ \E how \in Hows : EndRestoreCursorPosition(how)

SpecCursor == InitCursor /\ [][NextCursor]_vars

\* C6: with the active window's cursor at (C, K) when RestoreCursorPosition
\* is entered and L' lines in the current buffer when the body ends, the
\* active window's cursor after the scope is (min(C, L'), K), and its line
\* is within 1..L'.
C6_CursorClamped ==
  EndedBy("RestoreCursorPosition")
     => LET C == entry.wincursor[entry.curwin][1]
            K == entry.wincursor[entry.curwin][2]
            L == bodyend.host.buflen[bodyend.host.winbuf[bodyend.host.curwin]]
        IN  /\ wincursor[curwin] = <<Min(C, L), K>>
            /\ wincursor[curwin][1] \in 1..L

C6_Witness ==
  /\ EndedBy("RestoreCursorPosition")
  /\ bodyend.how = "raise"
  /\ entry.wincursor[entry.curwin][1] >
        bodyend.host.buflen[bodyend.host.winbuf[bodyend.host.curwin]]
  /\ entry.wincursor[entry.curwin][2] > 0

(***************************************************************************)
(* RestoreCurrentBuffer and RestorCurrentWindow, from every assignment of  *)
(* buffers to windows.                                                     *)
(***************************************************************************)
InitWindow ==
  /\ buflen \in [Buffers -> {1, MaxLines}]
  /\ winbuf \in [Windows -> Buffers]
  /\ curwin \in Windows
  /\ wincursor = [w \in Windows |-> <<1, 0>>]
  /\ InitOptionsDefault /\ InitBufoptsDefault /\ InitInputDefault
  /\ InitScope /\ InitPromptIdle /\ InitPathIdle /\ InitLogIdle

NextWindow ==
  \/ \E window \in Windows : RestoreCurrentBuffer(window)
  \/ RestorCurrentWindow
  \/ \E w \in Windows : BodySetCurrentWindow(w)
  \/ \E w \in Windows, b \in Buffers : BodySetBuffer(w, b)
  \/ \E how \in Hows : EndRestoreCurrentBuffer(how)
  \/ \E how \in Hows : EndRestorCurrentWindow(how)

SpecWindow == InitWindow /\ [][NextWindow]_vars

\* C10: after RestoreCurrentBuffer( window ) has ended, by return or by
\* raise, window displays the buffer it displayed when the scope was
\* entered, every other window displays the buffer it displayed when the
\* body ended, and the active window is the one active when the body ended.
C10_BufferRestoredWindowKept ==
  EndedBy("RestoreCurrentBuffer")
     => /\ winbuf[saved.window] = entry.winbuf[saved.window]
        /\ \A w \in Windows \ {saved.window} :
              winbuf[w] = bodyend.host.winbuf[w]
        /\ curwin = bodyend.host.curwin

C10_Witness ==
  /\ EndedBy("RestoreCurrentBuffer")
  /\ bodyend.how = "raise"
  /\ bodyend.host.winbuf[saved.window] # entry.winbuf[saved.window]
  /\ bodyend.host.curwin # saved.window
  /\ bodyend.host.curwin # entry.curwin

(***************************************************************************)
(* Every context manager of the module, with a body that may raise.        *)
(***************************************************************************)
InitScopes ==
  /\ options \in [OptNames -> {0, MaxOptValue}]
  /\ InitBufoptsDefault /\ InitInputDefault /\ InitWindowsDefault
  /\ InitScope /\ InitPromptIdle /\ InitPathIdle /\ InitLogIdle

NextScopes ==
  \/ \E buf \in Buffers : ModifiableScratchBuffer(buf)
  \/ RestoreCursorPosition
  \/ RestorCurrentWindow
  \/ \E window \in Windows : RestoreCurrentBuffer(window)
  \/ \E opt \in OptNames, value \in OptValues : TemporaryVimOption(opt, value)
  \/ InputSave
  \/ \E opt \in OptNames, v \in OptValues : BodySetOption(opt, v)
  \/ \E buf \in Buffers, name \in BufOptNames, v \in BOOLEAN :
        BodySetBufOption(buf, name, v)
  \/ \E buf \in Buffers, n \in Lines : BodySetLines(buf, n)
  \/ \E w \in Windows : BodySetCurrentWindow(w)
  \/ \E w \in Windows, b \in Buffers : BodySetBuffer(w, b)
  \/ \E how \in Hows : EndModifiableScratchBuffer(how)
  \/ \E how \in Hows : EndRestoreCursorPosition(how)
  \/ \E how \in Hows : EndRestorCurrentWindow(how)
  \/ \E how \in Hows : EndRestoreCurrentBuffer(how)
  \/ \E how \in Hows : EndTemporaryVimOption(how)
  \/ \E how \in Hows : EndInputSave(how)

SpecScopes == InitScopes /\ [][NextScopes]_vars

\* C2: when the body of any of the context managers raises, the code after
\* the yield runs and the error then reaches the caller of the with
\* statement: the scope never ends as if the body had returned.
C2_ErrorReachesCaller ==
  (pc = "done" /\ bodyend.how = "raise")
     => restored /\ outcome = "raised"

(***************************************************************************)
(* Strings are sequences of characters.                                    *)
(***************************************************************************)
Digit == <<"0", "1", "2", "3", "4", "5", "6", "7", "8", "9">>

\* str( n ) for a natural number n
RECURSIVE NatStr(_)
NatStr(n) ==
  IF n < 10 THEN <<Digit[n + 1]>>
            ELSE NatStr(n \div 10) \o <<Digit[(n % 10) + 1]>>

\* The host's answer to inputlist() as vim.eval() hands it over: a number
\* written as a string.
IntStr(k) == IF k < 0 THEN <<"-">> \o NatStr(0 - k) ELSE NatStr(k)

DigitValue(c) == CHOOSE d \in 0..9 : Digit[d + 1] = c

RECURSIVE NatOfStr(_)
NatOfStr(s) ==
  IF s = <<>> THEN 0
  ELSE 10 * NatOfStr(SubSeq(s, 1, Len(s) - 1)) + DigitValue(s[Len(s)])

\* int( s )
IntOfStr(s) ==
  IF s[1] = "-" THEN 0 - NatOfStr(Tail(s)) ELSE NatOfStr(s)

\* '{0}: {1}'.format( i + 1, v ), with i counted from 0
FormatOption(i, v) == NatStr(i + 1) \o <<":", " ">> \o v

RECURSIVE JsonChars(_)
JsonChars(s) ==
  IF s = <<>> THEN <<>>
  ELSE (IF s[1] \in {"\"", "\\"} THEN <<"\\", s[1]>> ELSE <<s[1]>>)
         \o JsonChars(Tail(s))

RECURSIVE JsonItems(_)
JsonItems(l) ==
  IF l = <<>> THEN <<>>
  ELSE <<"\"">> \o JsonChars(l[1]) \o <<"\"">>
         \o (IF Len(l) > 1 THEN <<",", " ">> ELSE <<>>) \o JsonItems(Tail(l))

\* json.dumps( l ) for a list of strings
JsonDumps(l) == <<"[">> \o JsonItems(l) \o <<"]">>

\* The host reading the list of double-quoted strings in the expression it
\* is asked to evaluate.
RECURSIVE VimReadList(_, _, _, _, _)
VimReadList(s, i, inStr, cur, acc) ==
  IF i > Len(s) THEN acc
  ELSE IF inStr
    THEN IF s[i] = "\\"
           THEN VimReadList(s, i + 2, TRUE, Append(cur, s[i + 1]), acc)
           ELSE IF s[i] = "\""
             THEN VimReadList(s, i + 1, FALSE, <<>>, Append(acc, cur))
             ELSE VimReadList(s, i + 1, TRUE, Append(cur, s[i]), acc)
    ELSE VimReadList(s, i + 1, s[i] = "\"", <<>>, acc)

\* Escape( msg ): msg.replace( "'", "''" )
RECURSIVE Escape(_)
Escape(msg) ==
  IF msg = <<>> THEN <<>>
  ELSE (IF msg[1] = "'" THEN <<"'", "'">> ELSE <<msg[1]>>) \o Escape(Tail(msg))

\* The host reading one single-quoted string: '' stands for one quote.
RECURSIVE VimReadQuoted(_, _, _)
VimReadQuoted(s, i, cur) ==
  IF i > Len(s) THEN cur
  ELSE IF s[i] = "'"
    THEN IF i < Len(s) /\ s[i + 1] = "'"
           THEN VimReadQuoted(s, i + 2, Append(cur, "'"))
           ELSE cur
    ELSE VimReadQuoted(s, i + 1, Append(cur, s[i]))

(***************************************************************************)
(* The prompts.  One action is one call: the prompt blocks until the user  *)
(* has answered or interrupted.                                            *)
(***************************************************************************)
\* prompt operations called in one behaviour
MaxPrompts == 2

PromptStrs == {<<"a">>, <<"'", "a", "'">>}
OptionStrs == {<<"a", "\"">>, <<"\\", "b">>}

RECURSIVE SeqsUpTo(_, _)
SeqsUpTo(S, n) ==
  IF n = 0 THEN {<<>>}
  ELSE SeqsUpTo(S, n - 1)
         \cup {Append(l, x) : l \in SeqsUpTo(S, n - 1), x \in S}

OptionLists == SeqsUpTo(OptionStrs, MaxOptions)

Number(k) == [kind |-> "number", k |-> k, text |-> <<>>]
Text(s) == [kind |-> "text", k |-> 0, text |-> s]
Interrupt == [kind |-> "interrupt", k |-> 0, text |-> <<>>]

\* display_options
DisplayOptions(prompt, opts) ==
  <<prompt>> \o [i \in 1..Len(opts) |-> FormatOption(i - 1, opts[i])]

SelectFromListBody_OneBased(opts, reply) ==
  IF reply.kind = "interrupt"
    THEN [how |-> "return", value |-> None]
    ELSE LET selection == IntOfStr(IntStr(reply.k))
         IN  IF selection < 0 \/ selection >= Len(opts)
               THEN [how |-> "return", value |-> None]
               ELSE [how |-> "return", value |-> Some(opts[selection + 1])]

\* The body of the with-statement of SelectFromList: how it ends and the
\* value it returns.
SelectFromListBody(opts, reply) ==
  IF reply.kind = "interrupt"
    THEN [how |-> "return", value |-> None]
    ELSE LET selection == IntOfStr(IntStr(reply.k)) - 1
         IN  IF selection < 0 \/ selection >= Len(opts)
               THEN [how |-> "return", value |-> None]
               ELSE [how |-> "return", value |-> Some(opts[selection + 1])]

\* The body of the with-statement of AskForInput.
AskForInputBody(reply) ==
  IF reply.kind = "interrupt"
    THEN [how |-> "raise", value |-> None]
    ELSE [how |-> "return", value |-> Some(reply.text)]

\* A function whose body is one with InputSave(): the host state after it,
\* the value it returns (None when the with-statement suppressed an error
\* and the function ran off its end) and whether an error left it.
WithInputSave(body) ==
  LET h == InputSaveExit(InputSaveEnter(Host), body.how)
      out == ExceptOutcome(body.how)
  IN  [host |-> h,
       result |-> IF body.how = "return" THEN body.value ELSE None,
       raised |-> out = "raised"]

othersOfPrompt == <<scopeVars, pathVars, logVars>>

SelectFromList(prompt, opts, reply) ==
  /\ inputsaves < MaxPrompts
  /\ LET r == WithInputSave(SelectFromListBody(opts, reply))
         expr == <<"inputlist( ">> \o JsonDumps(DisplayOptions(prompt, opts))
                    \o <<" )">>
     IN  /\ SetHost(r.host)
         /\ call' = [op |-> "SelectFromList", prompt |-> prompt,
                     options |-> opts, reply |-> reply,
                     shown |-> VimReadList(expr, 1, FALSE, <<>>, <<>>),
                     result |-> r.result, raised |-> r.raised]
  /\ UNCHANGED othersOfPrompt

AskForInput(prompt, reply) ==
  /\ inputsaves < MaxPrompts
  /\ LET r == WithInputSave(AskForInputBody(reply))
         expr == <<"'">> \o Escape(prompt) \o <<"'">>
     IN  /\ SetHost(r.host)
         /\ call' = [op |-> "AskForInput", prompt |-> prompt,
                     options |-> <<>>, reply |-> reply,
                     shown |-> <<VimReadQuoted(expr, 2, <<>>)>>,
                     result |-> r.result, raised |-> r.raised]
  /\ UNCHANGED othersOfPrompt

InitPrompt ==
  /\ InitOptionsDefault /\ InitBufoptsDefault /\ InitInputDefault
  /\ InitWindowsDefault
  /\ InitScope /\ InitPromptIdle /\ InitPathIdle /\ InitLogIdle

Replies(n) == {Number(k) : k \in (-1..(n + 2)) \cup {12}} \cup {Interrupt}

NextPrompt ==
  \/ \E prompt \in PromptStrs, opts \in OptionLists :
        \E reply \in Replies(Len(opts)) : SelectFromList(prompt, opts, reply)
  \/ \E prompt \in PromptStrs, reply \in {Text(s) : s \in OptionStrs \cup {<<>>}}
                                         \cup {Interrupt} :
        AskForInput(prompt, reply)

SpecPrompt == InitPrompt /\ [][NextPrompt]_vars

\* C1: when a prompt operation has returned to its caller, every
\* inputsave() it made has been followed by one inputrestore(): whether the
\* user answered, selected an index out of range or interrupted the input.
C1_InputRestoredOnReturn ==
  call # <<>> => inputrestores = inputsaves

\* C7: SelectFromList( prompt, options ) with options of length n returns
\* options[k-1] when the user enters k with 1 <= k <= n and None when
\* k <= 0 or k > n or the user interrupts, never raises, and shows prompt
\* followed by 'i: options[i-1]' for i = 1..n in order.
C7_SelectionReturned ==
  (call # <<>> /\ call.op = "SelectFromList")
     => LET n == Len(call.options)
            k == call.reply.k
        IN  /\ ~call.raised
            /\ call.result =
                 IF call.reply.kind = "number" /\ 1 <= k /\ k <= n
                   THEN Some(call.options[k]) ELSE None
            /\ Len(call.shown) = n + 1
            /\ call.shown[1] = call.prompt
            /\ \A i \in 1..n :
                 call.shown[i + 1] = <<Digit[i + 1], ":", " ">> \o call.options[i]

C7_Witness ==
  /\ call # <<>>
  /\ call.op = "SelectFromList"
  /\ Len(call.options) = MaxOptions
  /\ call.reply = Number(MaxOptions)
  /\ call.result = Some(call.options[MaxOptions])
  /\ call.options[MaxOptions] = <<"\\", "b">>
  /\ call.prompt = <<"'", "a", "'">>

(***************************************************************************)
(* PathToConfigFile.  A path is the sequence of its components; the root   *)
(* is the empty sequence.  One action is one pass through the loop.        *)
(***************************************************************************)
DirNames == {"a", "b"}
FileName == ".vimspector.json"

Dirs == SeqsUpTo(DirNames, MaxDepth)

\* os.path.join( p, file_name )
PathJoin(dir, name) == Append(dir, name)

PathDirname_StopsBelowRoot(path) ==
  IF Len(path) <= 1 THEN path ELSE SubSeq(path, 1, Len(path) - 1)

\* os.path.dirname( p ): the root is its own parent
PathDirname(path) ==
  IF path = <<>> THEN path ELSE SubSeq(path, 1, Len(path) - 1)

\* os.path.exists( candidate )
PathExists(path) == path \in fs

\* The directory itself and its ancestors, up to and including the root.
Ancestors(dir) == {SubSeq(dir, 1, n) : n \in 0..Len(dir)}

othersOfPath == <<hostVars, scopeVars, promptVars, logVars>>

PathToConfigFileStart ==
  /\ ppc = "start"
  /\ p' = cwd
  /\ ppc' = "loop"
  /\ UNCHANGED <<cwd, fs, presult, othersOfPath>>

PathToConfigFileLoop ==
  /\ ppc = "loop"
  /\ LET candidate == PathJoin(p, FileName)
         parent == PathDirname(p)
     IN  IF PathExists(candidate)
           THEN /\ presult' = Some(candidate)
                /\ ppc' = "done"
                /\ p' = p
           ELSE IF parent = p
             THEN /\ presult' = None
                  /\ ppc' = "done"
                  /\ p' = p
             ELSE /\ p' = parent
                  /\ UNCHANGED <<presult, ppc>>
  /\ UNCHANGED <<cwd, fs, othersOfPath>>

\* The working directory, with the file in any of the directories above it
\* (or in none) and possibly in a directory that is not above it.
InitPath ==
  /\ cwd \in Dirs
  /\ \E holders \in SUBSET Ancestors(cwd), aside \in BOOLEAN :
        fs = Ancestors(cwd)
               \cup {PathJoin(d, FileName) : d \in holders}
               \cup (IF aside THEN {<<"x">>, <<"x", FileName>>} ELSE {})
  /\ p = <<>>
  /\ ppc = "start"
  /\ presult = None
  /\ InitOptionsDefault /\ InitBufoptsDefault /\ InitInputDefault
  /\ InitWindowsDefault
  /\ InitScope /\ InitPromptIdle /\ InitLogIdle

NextPath == PathToConfigFileStart \/ PathToConfigFileLoop

\* The interpreter keeps running the loop until the function returns.
SpecPath == InitPath /\ [][NextPath]_vars /\ WF_vars(NextPath)

Holders == {d \in Ancestors(cwd) : PathJoin(d, FileName) \in fs}

Nearest == CHOOSE d \in Holders : \A e \in Holders : Len(e) <= Len(d)

\* C8: PathToConfigFile terminates, and it returns the path of file_name in
\* the nearest of the working directory and its ancestors (the root
\* included) that contains it, and None exactly when none of them does.
C8_NearestConfigFile ==
  /\ [](ppc = "done"
          => presult = IF Holders = {} THEN None
                       ELSE Some(PathJoin(Nearest, FileName)))
  /\ <>(ppc = "done")

C8_Witness ==
  /\ ppc = "done"
  /\ Len(cwd) = MaxDepth
  /\ Holders = {<<>>}
  /\ <<"x", FileName>> \in fs
  /\ presult = Some(<<FileName>>)

(***************************************************************************)
(* SetUpLogging.                                                           *)
(***************************************************************************)
Loggers == {"l1", "l2"}
LogHandler == "_log_handler"
Handlers == {LogHandler, "other"}
Levels == {"NOTSET", "DEBUG", "WARNING"}

RECURSIVE Count(_, _)
Count(l, x) ==
  IF l = <<>> THEN 0 ELSE (IF l[1] = x THEN 1 ELSE 0) + Count(Tail(l), x)

SetUpLoggingHandlers_AddsAgain(hs) == Append(hs, LogHandler)

\* if _log_handler not in logger.handlers: logger.addHandler( _log_handler )
SetUpLoggingHandlers(hs) ==
  IF \E i \in 1..Len(hs) : hs[i] = LogHandler THEN hs ELSE Append(hs, LogHandler)

othersOfLog == <<hostVars, scopeVars, promptVars, pathVars>>

SetUpLogging(logger) ==
  /\ setups[logger] < MaxSetups
  /\ level' = [level EXCEPT ![logger] = "DEBUG"]
  /\ handlers' = [handlers EXCEPT ![logger] = SetUpLoggingHandlers(@)]
  /\ setups' = [setups EXCEPT ![logger] = @ + 1]
  /\ lastSetup' = [logger |-> logger, nth |-> setups[logger] + 1,
                   before |-> handlers[logger],
                   after |-> SetUpLoggingHandlers(handlers[logger])]
  /\ UNCHANGED othersOfLog

\* Loggers as the logging module hands them out: a handler is in a
\* logger's list at most once.
InitLogging ==
  /\ handlers \in [Loggers -> {l \in SeqsUpTo(Handlers, 2) :
                                  \A h \in Handlers : Count(l, h) <= 1}]
  /\ level \in [Loggers -> Levels]
  /\ setups = [l \in Loggers |-> 0]
  /\ lastSetup = <<>>
  /\ InitOptionsDefault /\ InitBufoptsDefault /\ InitInputDefault
  /\ InitWindowsDefault
  /\ InitScope /\ InitPromptIdle /\ InitPathIdle

NextLogging == \E logger \in Loggers : SetUpLogging(logger)

SpecLogging == InitLogging /\ [][NextLogging]_vars

\* C9: once SetUpLogging has been called on a logger, however the calls on
\* the loggers interleave, the shared handler is in that logger's handler
\* list exactly once, and a second or later call on a logger left its
\* handler list unchanged.
C9_HandlerAttachedOnce ==
  /\ \A l \in Loggers :
        setups[l] >= 1 => Count(handlers[l], LogHandler) = 1
  /\ (lastSetup # <<>> /\ lastSetup.nth >= 2)
        => lastSetup.after = lastSetup.before

C9_Witness ==
  /\ lastSetup # <<>>
  /\ lastSetup.nth = MaxSetups
  /\ lastSetup.before = <<"other", LogHandler>>
  /\ \A l \in Loggers : setups[l] >= 1

====
